---- MODULE Spec2Model ----
(***************************************************************************)
(* Model of the semantic resolver (tools/k8s_resolver.py,                  *)
(* ManifestResolver) and of the structural validator                       *)
(* (tools/k8s_validator.py, KubernetesValidator) of kubeAegis.             *)
(*                                                                         *)
(* Python objects live in a heap: dicts and lists are heap objects that    *)
(* are reached through references, so that in-place mutation and aliasing  *)
(* between the caller's document and the resolver's working copy are       *)
(* visible.  Strings are sequences of one-character strings, so that       *)
(* str.lower(), str.strip() and the f-strings are computed.                *)
(***************************************************************************)
EXTENDS Integers, Sequences, FiniteSets, TLC

(***************************************************************************)
(* Bounds of the model.                                                    *)
(***************************************************************************)
\* longest spec.containers list among the input documents
MaxContainers == 2
\* most lines of a text given to fix_yaml_syntax
MaxLines == 3

(***************************************************************************)
(* Python values.                                                          *)
(***************************************************************************)
PyNone == [t |-> "none"]
PyStr(s) == [t |-> "str", s |-> s]
PyInt(n) == [t |-> "int", n |-> n]
PyRef(a) == [t |-> "ref", a |-> a]
\* a key that a generated document does not carry (never stored in the heap)
Absent == [t |-> "absent"]

\* heap objects
DictObj(d) == [t |-> "dict", d |-> d]
ListObj(l) == [t |-> "list", l |-> l]
EmptyMap == [k \in {} |-> PyNone]

IsStr(v) == v.t = "str"
IsRef(v) == v.t = "ref"
\* isinstance(v, dict)
IsDict(h, v) == IsRef(v) /\ h[v.a].t = "dict"

\* d[key] = val on a mapping
MapPut(d, key, val) == [k \in (DOMAIN d) \cup {key} |-> IF k = key THEN val ELSE d[k]]

(***************************************************************************)
(* String literals of the source, as character sequences.                  *)
(***************************************************************************)
S_v1 == <<"v", "1">>
S_Pod == <<"P", "o", "d">>
S_Deployment == <<"D", "e", "p", "l", "o", "y", "m", "e", "n", "t">>
S_Service == <<"S", "e", "r", "v", "i", "c", "e">>
S_ConfigMap == <<"C", "o", "n", "f", "i", "g", "M", "a", "p">>
S_Secret == <<"S", "e", "c", "r", "e", "t">>
S_dash_default == <<"-", "d", "e", "f", "a", "u", "l", "t">>
S_default == <<"d", "e", "f", "a", "u", "l", "t">>
S_container_dash == <<"c", "o", "n", "t", "a", "i", "n", "e", "r", "-">>
S_nginx_latest == <<"n", "g", "i", "n", "x", ":", "l", "a", "t", "e", "s", "t">>
S_IfNotPresent == <<"I", "f", "N", "o", "t", "P", "r", "e", "s", "e", "n", "t">>
S_Always == <<"A", "l", "w", "a", "y", "s">>

UpperCase == <<"A", "B", "C", "D", "E", "F", "G", "H", "I", "J", "K", "L", "M",
               "N", "O", "P", "Q", "R", "S", "T", "U", "V", "W", "X", "Y", "Z">>
LowerCase == <<"a", "b", "c", "d", "e", "f", "g", "h", "i", "j", "k", "l", "m",
               "n", "o", "p", "q", "r", "s", "t", "u", "v", "w", "x", "y", "z">>
Digits == <<"0", "1", "2", "3", "4", "5", "6", "7", "8", "9">>
WhiteSpace == {" ", "\t", "\n", "\r"}

\* str.lower()
LowerChar(c) ==
    IF \E i \in 1..Len(UpperCase) : UpperCase[i] = c
    THEN LowerCase[CHOOSE i \in 1..Len(UpperCase) : UpperCase[i] = c]
    ELSE c
StrLower(s) == [i \in 1..Len(s) |-> LowerChar(s[i])]

\* str.strip()
RECURSIVE LStrip(_)
LStrip(s) == IF s # <<>> /\ Head(s) \in WhiteSpace THEN LStrip(Tail(s)) ELSE s
RECURSIVE RStrip(_)
RStrip(s) ==
    IF s # <<>> /\ s[Len(s)] \in WhiteSpace THEN RStrip(SubSeq(s, 1, Len(s) - 1)) ELSE s
StrStrip(s) == RStrip(LStrip(s))

\* str(i) of a natural number, as in f"container-{i}"
RECURSIVE IntToStr(_)
IntToStr(n) ==
    IF n < 10 THEN <<Digits[n + 1]>> ELSE IntToStr(n \div 10) \o <<Digits[(n % 10) + 1]>>

\* sub in s, for two strings
StrContains(s, sub) ==
    \E i \in 0..(Len(s) - Len(sub)) : SubSeq(s, i + 1, i + Len(sub)) = sub


(***************************************************************************)
(* Dictionary keys of the source.                                          *)
(***************************************************************************)
K_apiVersion == <<"a", "p", "i", "V", "e", "r", "s", "i", "o", "n">>
K_kind == <<"k", "i", "n", "d">>
K_metadata == <<"m", "e", "t", "a", "d", "a", "t", "a">>
K_spec == <<"s", "p", "e", "c">>
K_name == <<"n", "a", "m", "e">>
K_namespace == <<"n", "a", "m", "e", "s", "p", "a", "c", "e">>
K_containers == <<"c", "o", "n", "t", "a", "i", "n", "e", "r", "s">>
K_image == <<"i", "m", "a", "g", "e">>
K_imagePullPolicy == <<"i", "m", "a", "g", "e", "P", "u", "l", "l", "P", "o", "l", "i", "c", "y">>
K_restartPolicy == <<"r", "e", "s", "t", "a", "r", "t", "P", "o", "l", "i", "c", "y">>
K_replicas == <<"r", "e", "p", "l", "i", "c", "a", "s">>
K_selector == <<"s", "e", "l", "e", "c", "t", "o", "r">>
K_template == <<"t", "e", "m", "p", "l", "a", "t", "e">>
K_matchLabels == <<"m", "a", "t", "c", "h", "L", "a", "b", "e", "l", "s">>
K_labels == <<"l", "a", "b", "e", "l", "s">>
K_app == <<"a", "p", "p">>
K_ports == <<"p", "o", "r", "t", "s">>
K_port == <<"p", "o", "r", "t">>
K_targetPort == <<"t", "a", "r", "g", "e", "t", "P", "o", "r", "t">>

(***************************************************************************)
(* Python's operations on values.  Each returns [exc, val]: exc is "" when *)
(* the operation returns val, and the exception's name when it raises.     *)
(***************************************************************************)
Ok(v) == [exc |-> "", val |-> v]
Raise(e) == [exc |-> e, val |-> PyNone]

\* bool(v)
Truthy(h, v) ==
    CASE v.t = "none" -> FALSE
      [] v.t = "str" -> Len(v.s) > 0
      [] v.t = "int" -> v.n # 0
      [] v.t = "ref" -> IF h[v.a].t = "dict" THEN DOMAIN h[v.a].d # {}
                                             ELSE Len(h[v.a].l) > 0

\* key in v, for a str key
PyContains(h, v, key) ==
    CASE v.t = "ref" ->
            IF h[v.a].t = "dict"
            THEN Ok(key \in DOMAIN h[v.a].d)
            ELSE Ok(\E i \in 1..Len(h[v.a].l) : h[v.a].l[i] = PyStr(key))
      [] v.t = "str" -> Ok(StrContains(v.s, key))
      [] OTHER -> Raise("TypeError")

\* v.get(key)
PyGet(h, v, key) ==
    IF IsDict(h, v)
    THEN Ok(IF key \in DOMAIN h[v.a].d THEN h[v.a].d[key] ELSE PyNone)
    ELSE Raise("AttributeError")

\* v[key], for a str key
PyGetItem(h, v, key) ==
    IF IsDict(h, v)
    THEN IF key \in DOMAIN h[v.a].d THEN Ok(h[v.a].d[key]) ELSE Raise("KeyError")
    ELSE Raise("TypeError")

\* v[key] = val, for a str key: the heap afterwards
PySetItem(h, v, key, val) ==
    IF IsDict(h, v)
    THEN Ok([h EXCEPT ![v.a] = DictObj(MapPut(h[v.a].d, key, val))])
    ELSE Raise("TypeError")

\* the elements iter(v) yields
RECURSIVE SetToSeq(_)
SetToSeq(s) ==
    IF s = {} THEN <<>> ELSE <<CHOOSE x \in s : TRUE>> \o SetToSeq(s \ {CHOOSE x \in s : TRUE})
StrsOf(ks) == [i \in 1..Len(ks) |-> PyStr(ks[i])]
PyIter(h, v) ==
    CASE v.t = "ref" ->
            IF h[v.a].t = "list" THEN Ok(h[v.a].l) ELSE Ok(StrsOf(SetToSeq(DOMAIN h[v.a].d)))
      [] v.t = "str" -> Ok([i \in 1..Len(v.s) |-> PyStr(<<v.s[i]>>)])
      [] OTHER -> Raise("TypeError")

\* not r
Not(r) == IF r.exc # "" THEN r ELSE Ok(~r.val)
\* bool(r)
TruthOf(h, r) == IF r.exc # "" THEN r ELSE Ok(Truthy(h, r.val))
\* a or b: b is evaluated only when a is false
OrElse(a, b) == IF a.exc # "" \/ a.val THEN a ELSE b

\* key not in v or not v.get(key)
NeedsDefault(h, v, key) ==
    OrElse(Not(PyContains(h, v, key)), Not(TruthOf(h, PyGet(h, v, key))))

\* key not in v or not v[key]
NeedsDefaultItem(h, v, key) ==
    OrElse(Not(PyContains(h, v, key)), Not(TruthOf(h, PyGetItem(h, v, key))))

(***************************************************************************)
(* Documents as values without identity (what YAML text denotes), and the  *)
(* two directions between them and the heap.                               *)
(***************************************************************************)
TDict(d) == [t |-> "dict", d |-> d]
TList(l) == [t |-> "list", l |-> l]

\* yaml.dump: the document a value denotes
RECURSIVE YamlDump(_, _)
YamlDump(h, v) ==
    IF v.t = "ref"
    THEN IF h[v.a].t = "dict"
         THEN TDict([k \in DOMAIN h[v.a].d |-> YamlDump(h, h[v.a].d[k])])
         ELSE TList([i \in 1..Len(h[v.a].l) |-> YamlDump(h, h[v.a].l[i])])
    ELSE v

\* a new object: the heap with it, and the reference to it
NewObject(h, obj) == [heap |-> Append(h, obj), val |-> PyRef(Len(h) + 1)]
NewDict(r) == NewObject(r.heap, DictObj(r.d))
NewList(r) == NewObject(r.heap, ListObj(r.l))

\* yaml.safe_load: fresh objects for a document; [heap, val]
RECURSIVE YamlSafeLoad(_, _)
RECURSIVE LoadItems(_, _, _, _)
RECURSIVE LoadItem(_, _, _, _, _)
RECURSIVE LoadElems(_, _, _, _)
RECURSIVE LoadElem(_, _, _, _)
YamlSafeLoad(h, doc) ==
    CASE doc.t = "dict" -> NewDict(LoadItems(h, doc.d, DOMAIN doc.d, EmptyMap))
      [] doc.t = "list" -> NewList(LoadElems(h, doc.l, 1, <<>>))
      [] OTHER -> [heap |-> h, val |-> doc]
LoadItems(h, d, keys, acc) ==
    IF keys = {} THEN [heap |-> h, d |-> acc]
    ELSE LoadItem(YamlSafeLoad(h, d[CHOOSE k \in keys : TRUE]), d, keys,
                  CHOOSE k \in keys : TRUE, acc)
LoadItem(r, d, keys, k, acc) == LoadItems(r.heap, d, keys \ {k}, MapPut(acc, k, r.val))
LoadElems(h, l, i, acc) ==
    IF i > Len(l) THEN [heap |-> h, l |-> acc]
    ELSE LoadElem(YamlSafeLoad(h, l[i]), l, i, acc)
LoadElem(r, l, i, acc) == LoadElems(r.heap, l, i + 1, Append(acc, r.val))

(***************************************************************************)
(* ManifestResolver.  A fix entry is its marker, its fixed text and the    *)
(* strings its f-string interpolates.  The state threaded through the      *)
(* statements is [heap, fixes, exc]; once exc is set the remaining         *)
(* statements are skipped, as after a raise.                               *)
(***************************************************************************)
Fix(mark, text, args) == [mark |-> mark, text |-> text, args |-> args]
CHECK == "check"
WARNING == "warning"

DEFAULT_API_VERSION == PyStr(S_v1)
DEFAULT_REPLICA_COUNT == PyInt(1)
DEFAULT_IMAGE_PULL_POLICY == PyStr(S_IfNotPresent)

Failed(st, e) == [st EXCEPT !.exc = e]

\* if cond: Body, where cond is the [exc, val] of the condition
IfThen(st, cond, Body(_)) ==
    IF st.exc # "" THEN st
    ELSE IF cond.exc # "" THEN Failed(st, cond.exc)
    ELSE IF cond.val THEN Body(st) ELSE st

\* if cond: Body else: Other
IfThenElse(st, cond, Body(_), Other(_)) ==
    IF st.exc # "" THEN st
    ELSE IF cond.exc # "" THEN Failed(st, cond.exc)
    ELSE IF cond.val THEN Body(st) ELSE Other(st)

\* the state after an assignment whose outcome is r, and fixes.append(f)
Assigned(st, r, f) ==
    IF r.exc # "" THEN Failed(st, r.exc)
    ELSE [st EXCEPT !.heap = r.val, !.fixes = Append(@, f)]

\* target[key] = val; fixes.append(f)
SetAndFix(st, target, key, val, f) ==
    Assigned(st, PySetItem(st.heap, target, key, val), f)

\* target[key] = <the objects of document tree>; fixes.append(f)
LoadedAndFix(st, r, target, key, f) ==
    SetAndFix([st EXCEPT !.heap = r.heap], target, key, r.val, f)
SetNewAndFix(st, target, key, tree, f) ==
    LoadedAndFix(st, YamlSafeLoad(st.heap, tree), target, key, f)

\* if "apiVersion" not in fixed_manifest or not fixed_manifest.get("apiVersion")
FixApiVersion(st, fm) ==
    IfThen(st, NeedsDefault(st.heap, fm, K_apiVersion),
           LAMBDA s : SetAndFix(s, fm, K_apiVersion, DEFAULT_API_VERSION,
                                Fix(CHECK, "Added default apiVersion (v1)", <<>>)))

\* if "metadata" not in fixed_manifest
FixMetadataSection(st, fm) ==
    IfThen(st, Not(PyContains(st.heap, fm, K_metadata)),
           LAMBDA s : SetNewAndFix(s, fm, K_metadata, TDict(EmptyMap),
                                   Fix(CHECK, "Added metadata section", <<>>)))

\* metadata = fixed_manifest["metadata"]
MetadataOf(st, fm) == st.heap[fm.a].d[K_metadata]

\* f"{kind.lower()}-default"
DefaultName(kind) == StrLower(kind.s) \o S_dash_default

\* metadata["name"] = f"{kind.lower()}-default"
SetDefaultName(st, metadata, kind) ==
    IF ~IsStr(kind) THEN Failed(st, "AttributeError")
    ELSE SetAndFix(st, metadata, K_name, PyStr(DefaultName(kind)),
                   Fix(CHECK, "Added default name: ", <<DefaultName(kind)>>))

\* if "name" not in metadata or not metadata.get("name")
FixMetadataName(st, fm, kind) ==
    IfThen(st, NeedsDefault(st.heap, MetadataOf(st, fm), K_name),
           LAMBDA s : SetDefaultName(s, MetadataOf(s, fm), kind))

\* if "namespace" not in metadata
FixMetadataNamespace(st, fm) ==
    IfThen(st, Not(PyContains(st.heap, MetadataOf(st, fm), K_namespace)),
           LAMBDA s : SetAndFix(s, MetadataOf(s, fm), K_namespace, PyStr(S_default),
                                Fix(CHECK, "Added default namespace (default)", <<>>)))

\* if "spec" not in manifest, in each of the three _fix_*_spec
FixSpecSection(st, fm) ==
    IfThen(st, Not(PyContains(st.heap, fm, K_spec)),
           LAMBDA s : SetNewAndFix(s, fm, K_spec, TDict(EmptyMap),
                                   Fix(CHECK, "Added spec section", <<>>)))

\* spec = manifest["spec"]
SpecOf(st, fm) == st.heap[fm.a].d[K_spec]

\* if key not in target: target[key] = val
DefaultIfMissing(st, target, key, val, f) ==
    IfThen(st, Not(PyContains(st.heap, target, key)),
           LAMBDA s : SetAndFix(s, target, key, val, f))

\* if key not in target: target[key] = <the objects of document tree>
DefaultTreeIfMissing(st, target, key, tree, f) ==
    IfThen(st, Not(PyContains(st.heap, target, key)),
           LAMBDA s : SetNewAndFix(s, target, key, tree, f))

\* f"container-{i}"
ContainerName(i) == S_container_dash \o IntToStr(i)

\* the body of the loop over enumerate(spec["containers"]), for index i
FixContainerName(st, container, i) ==
    IfThen(st, NeedsDefault(st.heap, container, K_name),
           LAMBDA s : SetAndFix(s, container, K_name, PyStr(ContainerName(i)),
                                Fix(CHECK, "Fixed container name: ",
                                    <<IntToStr(i), ContainerName(i)>>)))
FixContainerImage(st, container, i) ==
    IfThen(st, NeedsDefault(st.heap, container, K_image),
           LAMBDA s : SetAndFix(s, container, K_image, PyStr(S_nginx_latest),
                                Fix(CHECK, "Added default image to container: ",
                                    <<IntToStr(i), S_nginx_latest>>)))
FixContainerPullPolicy(st, container, i) ==
    DefaultIfMissing(st, container, K_imagePullPolicy, DEFAULT_IMAGE_PULL_POLICY,
                     Fix(CHECK, "Added imagePullPolicy to container", <<IntToStr(i)>>))
FixContainer(st, container, i) ==
    FixContainerPullPolicy(
        FixContainerImage(FixContainerName(st, container, i), container, i), container, i)

\* for i, container in enumerate(spec["containers"]), from position p (i = p - 1)
RECURSIVE FixContainersFrom(_, _, _)
FixContainersFrom(st, elems, p) ==
    IF st.exc # "" \/ p > Len(elems) THEN st
    ELSE FixContainersFrom(FixContainer(st, elems[p], p - 1), elems, p + 1)
LoopContainers(st, it) ==
    IF it.exc # "" THEN Failed(st, it.exc) ELSE FixContainersFrom(st, it.val, 1)

\* spec["containers"] = [{"name": "container-0", "image": "nginx:latest"}]
DefaultContainers ==
    TList(<<TDict(MapPut(MapPut(EmptyMap, K_name, PyStr(S_container_dash \o <<"0">>)),
                         K_image, PyStr(S_nginx_latest)))>>)

\* the if/else on spec["containers"]
FixContainers(st, fm) ==
    IfThenElse(st, NeedsDefaultItem(st.heap, SpecOf(st, fm), K_containers),
               LAMBDA s : SetNewAndFix(s, SpecOf(s, fm), K_containers, DefaultContainers,
                                       Fix(CHECK, "Added default container", <<>>)),
               LAMBDA s : LoopContainers(s, PyIter(s.heap, s.heap[SpecOf(s, fm).a].d[K_containers])))

\* if "restartPolicy" not in spec
FixRestartPolicy(st, fm) ==
    IfThen(st, Not(PyContains(st.heap, SpecOf(st, fm), K_restartPolicy)),
           LAMBDA s : SetAndFix(s, SpecOf(s, fm), K_restartPolicy, PyStr(S_Always),
                                Fix(CHECK, "Added default restartPolicy (Always)", <<>>)))

_fix_pod_spec(st, fm) ==
    FixRestartPolicy(FixContainers(FixSpecSection(st, fm), fm), fm)

Labels == TDict(MapPut(EmptyMap, K_app, PyStr(S_default)))
DefaultSelector == TDict(MapPut(EmptyMap, K_matchLabels, Labels))
DefaultTemplate ==
    TDict(MapPut(MapPut(EmptyMap, K_metadata, TDict(MapPut(EmptyMap, K_labels, Labels))),
                 K_spec, TDict(EmptyMap)))
DefaultPorts ==
    TList(<<TDict(MapPut(MapPut(EmptyMap, K_port, PyInt(80)), K_targetPort, PyInt(8080)))>>)

FixReplicas(st, fm) ==
    IfThen(st, Not(PyContains(st.heap, SpecOf(st, fm), K_replicas)),
           LAMBDA s : SetAndFix(s, SpecOf(s, fm), K_replicas, DEFAULT_REPLICA_COUNT,
                                Fix(CHECK, "Added default replicas", <<>>)))
FixDeploymentSelector(st, fm) ==
    IfThen(st, Not(PyContains(st.heap, SpecOf(st, fm), K_selector)),
           LAMBDA s : SetNewAndFix(s, SpecOf(s, fm), K_selector, DefaultSelector,
                                   Fix(CHECK, "Added default selector", <<>>)))
FixTemplate(st, fm) ==
    IfThen(st, Not(PyContains(st.heap, SpecOf(st, fm), K_template)),
           LAMBDA s : SetNewAndFix(s, SpecOf(s, fm), K_template, DefaultTemplate,
                                   Fix(CHECK, "Added template section", <<>>)))

_fix_deployment_spec(st, fm) ==
    FixTemplate(FixDeploymentSelector(FixReplicas(FixSpecSection(st, fm), fm), fm), fm)

FixServiceSelector(st, fm) ==
    IfThen(st, Not(PyContains(st.heap, SpecOf(st, fm), K_selector)),
           LAMBDA s : SetNewAndFix(s, SpecOf(s, fm), K_selector, Labels,
                                   Fix(CHECK, "Added default selector", <<>>)))
FixPorts(st, fm) ==
    IfThen(st, NeedsDefaultItem(st.heap, SpecOf(st, fm), K_ports),
           LAMBDA s : SetNewAndFix(s, SpecOf(s, fm), K_ports, DefaultPorts,
                                   Fix(CHECK, "Added default ports", <<>>)))

_fix_service_spec(st, fm) ==
    FixPorts(FixServiceSelector(FixSpecSection(st, fm), fm), fm)

\* the dispatch on kind with the Pod rules as the rules of every other kind
FixSpecPodElse(st, fm, kind) ==
    IF st.exc # "" THEN st
    ELSE IF kind = PyStr(S_Deployment) THEN _fix_deployment_spec(st, fm)
    ELSE IF kind = PyStr(S_Service) THEN _fix_service_spec(st, fm)
    ELSE _fix_pod_spec(st, fm)

\* the dispatch on kind
FixSpecByKind(st, fm, kind) ==
    IF st.exc # "" THEN st
    ELSE IF kind = PyStr(S_Pod) THEN _fix_pod_spec(st, fm)
    ELSE IF kind = PyStr(S_Deployment) THEN _fix_deployment_spec(st, fm)
    ELSE IF kind = PyStr(S_Service) THEN _fix_service_spec(st, fm)
    ELSE st

\* fixed_manifest = dict(manifest): a new top-level dict over the same values
ShallowCopy(h, m) == NewObject(h, h[m.a])

\* fixed_manifest = yaml.safe_load(yaml.dump(manifest))
DeepCopy(h, m) == YamlSafeLoad(h, YamlDump(h, m))

\* what a call returns or raises, and the heap it leaves
Returned(h, was_modified, fixed_manifest, fixes_applied) ==
    [exc |-> "", was_modified |-> was_modified, fixed_manifest |-> fixed_manifest,
     fixes_applied |-> fixes_applied, heap |-> h]
Raised(h, e) ==
    [exc |-> e, was_modified |-> FALSE, fixed_manifest |-> PyNone,
     fixes_applied |-> <<>>, heap |-> h]

\* return True, fixed_manifest, fixes_applied
ReturnTrue(st, fm) ==
    IF st.exc # "" THEN Raised(st.heap, st.exc)
    ELSE Returned(st.heap, TRUE, fm, st.fixes)

\* return bool(fixes_applied), fixed_manifest, fixes_applied
ReturnFixes(st, fm) ==
    IF st.exc # "" THEN Raised(st.heap, st.exc)
    ELSE Returned(st.heap, st.fixes # <<>>, fm, st.fixes)

\* the kind-specific routine run before the metadata fixes
FixWithKindSpecFirst(st, fm, kind) ==
    FixMetadataNamespace(
        FixMetadataName(FixMetadataSection(FixSpecByKind(st, fm, kind), fm), fm, kind), fm)

\* the statements after kind = fixed_manifest.get("kind")
FixWithKind(st, fm, kind) ==
    FixSpecByKind(
        FixMetadataNamespace(FixMetadataName(FixMetadataSection(st, fm), fm, kind), fm),
        fm, kind)

\* fixes_applied.append("... Missing 'kind' field ..."); return True, fixed_manifest, fixes_applied
ReturnMissingKind(st, fm) ==
    Returned(st.heap, TRUE, fm,
             Append(st.fixes, Fix(WARNING, "Missing 'kind' field - cannot proceed", <<>>)))

\* the check of "kind" made after the metadata section has been added
FixKindLate(st, fm) ==
    IF K_kind \notin DOMAIN st.heap[fm.a].d
    THEN ReturnMissingKind(FixMetadataSection(st, fm), fm)
    ELSE ReturnFixes(FixWithKind(st, fm, st.heap[fm.a].d[K_kind]), fm)

\* if "kind" not in fixed_manifest: ...; kind = fixed_manifest.get("kind"); ...
FixKind(st, fm) ==
    IF K_kind \notin DOMAIN st.heap[fm.a].d
    THEN ReturnMissingKind(st, fm)
    ELSE ReturnFixes(FixWithKind(st, fm, st.heap[fm.a].d[K_kind]), fm)

\* the statements on the copy c = [heap, val]
ResolveCopy(c) ==
    FixKind(FixApiVersion([heap |-> c.heap, fixes |-> <<>>, exc |-> ""], c.val), c.val)

resolve_manifest(h, m) ==
    IF ~IsDict(h, m)
    THEN Returned(h, FALSE, m, <<Fix("", "Invalid manifest format", <<>>)>>)
    ELSE ResolveCopy(DeepCopy(h, m))

(***************************************************************************)
(* KubernetesValidator.                                                    *)
(***************************************************************************)
REQUIRED_FIELDS == <<K_apiVersion, K_kind, K_metadata, K_spec>>
REQUIRED_KINDS == {S_Pod, S_Deployment, S_Service}
SUPPORTED_KINDS == <<S_Pod, S_Deployment, S_Service, S_ConfigMap, S_Secret>>

Validated(errors) == [exc |-> "", valid |-> Len(errors) = 0, errors |-> errors]
ValidateRaised(e) == [exc |-> e, valid |-> FALSE, errors |-> <<>>]

\* hash(v) raises for a dict or a list
Hashable(v) == v.t # "ref"

\* the loop over the required fields left at the first field that is missing
RECURSIVE FirstMissingField(_, _, _)
FirstMissingField(d, kind, i) ==
    IF i > Len(REQUIRED_FIELDS) THEN <<>>
    ELSE IF REQUIRED_FIELDS[i] \notin DOMAIN d
         THEN <<[text |-> "Missing required field for kind", args |-> <<kind, REQUIRED_FIELDS[i]>>]>>
         ELSE FirstMissingField(d, kind, i + 1)

\* the errors for the required fields that are missing, in REQUIRED_FIELDS order
RECURSIVE MissingFields(_, _, _)
MissingFields(d, kind, i) ==
    IF i > Len(REQUIRED_FIELDS) THEN <<>>
    ELSE (IF REQUIRED_FIELDS[i] \notin DOMAIN d
          THEN <<[text |-> "Missing required field for kind", args |-> <<kind, REQUIRED_FIELDS[i]>>]>>
          ELSE <<>>) \o MissingFields(d, kind, i + 1)

ApiVersionErrors(d) ==
    IF K_apiVersion \in DOMAIN d
       /\ (~IsStr(d[K_apiVersion]) \/ StrStrip(d[K_apiVersion].s) = <<>>)
    THEN <<[text |-> "Invalid apiVersion: must be a non-empty string", args |-> <<>>]>>
    ELSE <<>>

MetadataErrors(h, d) ==
    IF K_metadata \notin DOMAIN d THEN <<>>
    ELSE IF ~IsDict(h, d[K_metadata])
         THEN <<[text |-> "Invalid metadata: must be a dictionary", args |-> <<>>]>>
         ELSE IF K_name \notin DOMAIN h[d[K_metadata].a].d
              THEN <<[text |-> "Missing required field in metadata: 'name'", args |-> <<>>]>>
              ELSE <<>>

\* validate_manifest without the return after the missing-kind error
validate_manifest_no_return(h, m) ==
    IF ~IsDict(h, m) THEN ValidateRaised("TypeError")
    ELSE IF K_kind \in DOMAIN h[m.a].d /\ ~Hashable(h[m.a].d[K_kind])
         THEN ValidateRaised("TypeError")
    ELSE Validated((IF K_kind \notin DOMAIN h[m.a].d
                    THEN <<[text |-> "Missing required field: 'kind'", args |-> <<>>]>>
                    ELSE <<>>)
                   \o ApiVersionErrors(h[m.a].d) \o MetadataErrors(h, h[m.a].d))

validate_manifest(h, m) ==
    LET c == PyContains(h, m, K_kind)
    IN IF c.exc # "" THEN ValidateRaised(c.exc)
       ELSE IF ~c.val
            THEN Validated(<<[text |-> "Missing required field: 'kind'", args |-> <<>>]>>)
       ELSE LET g == PyGet(h, m, K_kind)
            IN IF g.exc # "" THEN ValidateRaised(g.exc)
               ELSE LET kind == g.val
                        d == h[m.a].d
                        e1 == IF \E i \in 1..Len(SUPPORTED_KINDS) : kind = PyStr(SUPPORTED_KINDS[i])
                              THEN <<>>
                              ELSE <<[text |-> "Unsupported Kubernetes kind", args |-> <<kind>>]>>
                    IN IF ~Hashable(kind) THEN ValidateRaised("TypeError")
                       ELSE Validated(e1
                                \o (IF IsStr(kind) /\ kind.s \in REQUIRED_KINDS
                                    THEN MissingFields(d, kind.s, 1) ELSE <<>>)
                                \o ApiVersionErrors(d)
                                \o MetadataErrors(h, d))

(***************************************************************************)
(* The documents the calls are applied to.                                 *)
(***************************************************************************)
S_Banana == <<"B", "a", "n", "a", "n", "a">>
S_Never == <<"N", "e", "v", "e", "r">>
S_web == <<"w", "e", "b">>
S_prod == <<"p", "r", "o", "d">>
S_redis == <<"r", "e", "d", "i", "s">>

\* the mapping of the <<key, value>> pairs whose value is not Absent
RECURSIVE MkMap(_)
MkMap(pairs) ==
    IF pairs = <<>> THEN EmptyMap
    ELSE LET rest == MkMap(Tail(pairs))
         IN IF Head(pairs)[2] = Absent THEN rest
            ELSE MapPut(rest, Head(pairs)[1], Head(pairs)[2])

ApiVersionChoices == {Absent, PyStr(S_v1), PyStr(<<>>), PyStr(<<" ">>), PyInt(1)}

KindChoices ==
    {Absent, PyStr(S_Pod), PyStr(S_Deployment), PyStr(S_Service), PyStr(S_ConfigMap),
     PyStr(S_Banana), PyInt(7), TList(<<PyStr(S_Pod)>>), TDict(EmptyMap)}

MetadataChoices ==
    {Absent, PyNone, PyStr(S_web)}
    \cup {TDict(MkMap(<<<<K_name, n>>, <<K_namespace, ns>>>>)) :
            n \in {Absent, PyStr(<<>>), PyStr(S_web)}, ns \in {Absent, PyStr(S_prod)}}

ContainerChoices ==
    {TDict(EmptyMap),
     TDict(MkMap(<<<<K_name, PyStr(<<>>)>>>>)),
     TDict(MkMap(<<<<K_image, PyStr(S_redis)>>>>)),
     TDict(MkMap(<<<<K_name, PyStr(S_web)>>, <<K_image, PyStr(S_redis)>>>>)),
     TDict(MkMap(<<<<K_name, PyStr(S_web)>>, <<K_image, PyStr(S_redis)>>,
                   <<K_imagePullPolicy, PyStr(S_Always)>>>>)),
     PyStr(S_web)}

ContainersChoices ==
    {Absent, PyNone, PyInt(3)}
    \cup {TList(l) : l \in UNION {[1..n -> ContainerChoices] : n \in 0..MaxContainers}}

PodSpecs ==
    {TDict(MkMap(<<<<K_containers, c>>, <<K_restartPolicy, rp>>>>)) :
        c \in ContainersChoices, rp \in {Absent, PyStr(S_Never)}}

DeploymentSpecs ==
    {TDict(MkMap(<<<<K_replicas, r>>, <<K_selector, sel>>, <<K_template, tp>>>>)) :
        r \in {Absent, PyInt(3)}, sel \in {Absent, Labels}, tp \in {Absent, TDict(EmptyMap)}}

ServiceSpecs ==
    {TDict(MkMap(<<<<K_selector, sel>>, <<K_ports, ps>>>>)) :
        sel \in {Absent, Labels},
        ps \in {Absent, TList(<<>>), TList(<<TDict(MkMap(<<<<K_port, PyInt(443)>>>>))>>)}}

SpecChoices(kind) ==
    {Absent, PyNone}
    \cup (CASE kind = PyStr(S_Pod) -> PodSpecs
            [] kind = PyStr(S_Deployment) -> DeploymentSpecs
            [] kind = PyStr(S_Service) -> ServiceSpecs
            [] OTHER -> {TDict(EmptyMap)})

\* the documents that are no mapping, and the mappings of a kind
Documents(kind) ==
    {PyNone, PyStr(S_Pod), TList(<<>>)}
    \cup {TDict(MkMap(<<<<K_apiVersion, av>>, <<K_kind, kind>>,
                        <<K_metadata, md>>, <<K_spec, sp>>>>)) :
             av \in ApiVersionChoices, md \in MetadataChoices, sp \in SpecChoices(kind)}

(***************************************************************************)
(* YAMLSyntaxFixer.fix_yaml_syntax (tools/k8s_resolver.py).  The text is a *)
(* sequence of characters, "\n" among them; the call is the record of its  *)
(* locals: lines, i, line, fixed_lines, fixes_applied, modified, and the   *)
(* fixed_content it returns.  i counts from 0 as in the source, so that    *)
(* lines[i] of the source is lines[i + 1] here.                            *)
(***************************************************************************)
S_True == <<"T", "r", "u", "e">>
S_False == <<"F", "a", "l", "s", "e">>
S_ngin_x == <<"n", "g", "i", "n", " ", "x">>
S_nginx == <<"n", "g", "i", "n", "x">>
S_conts_ainer == <<"c", "o", "n", "t", "s", " ", "a", "i", "n", "e", "r">>
S_container == <<"c", "o", "n", "t", "a", "i", "n", "e", "r">>
S_olicy_colon == <<"o", "l", "i", "c", "y", ":">>
NEWLINE == <<"\n">>
COLON == <<":">>
\* ['True', 'False', 'Always', 'IfNotPresent', 'Never']
VALUE_KEYWORDS == <<S_True, S_False, S_Always, S_IfNotPresent, S_Never>>

\* s.startswith(p), s.endswith(p)
StartsWith(s, p) == Len(s) >= Len(p) /\ SubSeq(s, 1, Len(p)) = p
EndsWith(s, p) == Len(s) >= Len(p) /\ SubSeq(s, Len(s) - Len(p) + 1, Len(s)) = p

\* s.index(sub) for a one-character sub: the 0-based place of its first occurrence
StrIndex(s, sub) ==
    IF StrContains(s, sub)
    THEN Ok((CHOOSE k \in 1..Len(s) : s[k] = sub[1] /\ \A m \in 1..(k - 1) : s[m] # sub[1]) - 1)
    ELSE Raise("ValueError")

\* s.split(sep) for a one-character sep
RECURSIVE StrSplit(_, _)
SplitAt(s, sep, at) ==
    <<SubSeq(s, 1, at.val)>> \o StrSplit(SubSeq(s, at.val + 2, Len(s)), sep)
StrSplit(s, sep) == IF StrContains(s, sep) THEN SplitAt(s, sep, StrIndex(s, sep)) ELSE <<s>>

\* sep.join(parts)
RECURSIVE StrJoin(_, _)
StrJoin(sep, parts) ==
    IF parts = <<>> THEN <<>>
    ELSE IF Len(parts) = 1 THEN parts[1]
    ELSE parts[1] \o sep \o StrJoin(sep, Tail(parts))

\* s.replace(old, new): the occurrences of old, left to right, without overlap
RECURSIVE StrReplace(_, _, _)
StrReplace(s, old, new) ==
    IF Len(s) < Len(old) THEN s
    ELSE IF SubSeq(s, 1, Len(old)) = old
         THEN new \o StrReplace(SubSeq(s, Len(old) + 1, Len(s)), old, new)
         ELSE <<Head(s)>> \o StrReplace(Tail(s), old, new)

\* l[-1]
PyLast(l) == IF l = <<>> THEN Raise("IndexError") ELSE Ok(l[Len(l)])

Abs(n) == IF n < 0 THEN -n ELSE n

\* line[:len(line) - len(stripped)]
Indent(line) == SubSeq(line, 1, Len(line) - Len(LStrip(line)))

\* any(stripped.startswith(p) for p in [...])
StartsWithKeyword(stripped) ==
    \E k \in 1..Len(VALUE_KEYWORDS) : StartsWith(stripped, VALUE_KEYWORDS[k])

\* the call raised e
FixerFailed(f, e) == [f EXCEPT !.exc = e, !.pc = "raised"]

\* fixes_applied.append(...) without modified = True
RecordedUnflagged(f, fix) == [f EXCEPT !.fixes_applied = Append(@, fix)]

\* fixes_applied.append(...); modified = True
Recorded(f, fix) == [f EXCEPT !.fixes_applied = Append(@, fix), !.modified = TRUE]

\* fixed_lines.append(stripped); i += 1: the line without its indentation
AppendStripped(f) == [f EXCEPT !.fixed_lines = Append(@, LStrip(f.line)), !.i = @ + 1]

\* fixed_lines.append(line); i += 1  (a blank line, or a line no merge consumed)
AppendLine(f) == [f EXCEPT !.fixed_lines = Append(@, f.line), !.i = @ + 1]

\* if 'ngin x' in line: line = line.replace('ngin x', 'nginx'); ...
FixImageName(f) ==
    IF StrContains(f.line, S_ngin_x)
    THEN Recorded([f EXCEPT !.line = StrReplace(@, S_ngin_x, S_nginx)],
                  Fix(CHECK, "Fixed image name: 'ngin x' -> 'nginx'", <<>>))
    ELSE f

\* if 'conts ainer' in line: line = line.replace('conts ainer', 'container'); ...
FixContainerWord(f) ==
    IF StrContains(f.line, S_conts_ainer)
    THEN Recorded([f EXCEPT !.line = StrReplace(@, S_conts_ainer, S_container)],
                  Fix(CHECK, "Fixed container name: 'conts ainer' -> 'container'", <<>>))
    ELSE f

\* the split key: the line has no colon and the next line continues it with "olicy:"
IsSplitKey(f, stripped) ==
    /\ ~StrContains(stripped, COLON)
    /\ f.i < Len(f.lines) - 1
    /\ StartsWith(LStrip(f.lines[f.i + 2]), S_olicy_colon)

\* merged = stripped + next_stripped: the merged key without the indentation
MergeSplitKeyUnindented(f, stripped, indent) ==
    [Recorded(f, Fix(CHECK, "Fixed split key: merged with next line", <<stripped>>))
        EXCEPT !.fixed_lines = Append(@, stripped \o LStrip(f.lines[f.i + 2])),
               !.i = @ + 2]

\* merged = indent + stripped + next_stripped; ...; i += 2
MergeSplitKey(f, stripped, indent) ==
    [Recorded(f, Fix(CHECK, "Fixed split key: merged with next line", <<stripped>>))
        EXCEPT !.fixed_lines = Append(@, indent \o stripped \o LStrip(f.lines[f.i + 2])),
               !.i = @ + 2]

\* the line has no colon and starts with a value keyword
IsOrphanedValue(stripped) ==
    ~StrContains(stripped, COLON) /\ StartsWithKeyword(stripped)

\* the previous line is a key without a value at the indentation of the line, or one
\* character away
IsEmptyKey(prev_line, prev_stripped, indent) ==
    /\ StrContains(prev_stripped, COLON)
    /\ \/ EndsWith(RStrip(prev_stripped), COLON)
       \/ EndsWith(RStrip(prev_stripped), <<":", " ">>)
    /\ Abs(Len(Indent(prev_line)) - Len(indent)) <= 1

\* prev_key = prev_stripped.split(':')[0] + ':'
PrevKey(prev_stripped) == StrSplit(prev_stripped, COLON)[1] \o COLON

\* fixed_lines.pop(); fixed_lines.append(prev_indent_str + prev_key + ' ' + stripped);
\* ...; i += 1
MergeBackward(f, prev_line, stripped) ==
    [Recorded(f, Fix(CHECK, "Fixed orphaned value: merged with previous key", <<stripped>>))
        EXCEPT !.fixed_lines =
                   Append(SubSeq(@, 1, Len(@) - 1),
                          Indent(prev_line) \o PrevKey(LStrip(prev_line)) \o <<" ">> \o stripped),
               !.i = @ + 1]

\* the while loop that skips the empty lines from j on
RECURSIVE SkipEmpty(_, _)
SkipEmpty(lines, j) ==
    IF j < Len(lines) /\ StrStrip(lines[j + 1]) = <<>> THEN SkipEmpty(lines, j + 1) ELSE j

\* after_colon = stripped[colon_idx + 1:].strip()
AfterColon(stripped, colon_idx) == StrStrip(SubSeq(stripped, colon_idx + 2, Len(stripped)))
\* key_part = stripped[:colon_idx + 1]
KeyPart(stripped, colon_idx) == SubSeq(stripped, 1, colon_idx + 1)

\* the line at j is a value keyword at exactly the indentation of the key
IsValueLineSameIndent(f, j, value_stripped, indent) ==
    /\ Len(f.lines[j + 1]) - Len(value_stripped) = Len(indent)
    /\ value_stripped # <<>>
    /\ ~StrContains(value_stripped, COLON)
    /\ StartsWithKeyword(value_stripped)

\* the line at j is a value keyword at the indentation of the key, or one character
\* away
IsValueLine(f, j, value_stripped, indent) ==
    /\ Abs((Len(f.lines[j + 1]) - Len(value_stripped)) - Len(indent)) <= 1
    /\ value_stripped # <<>>
    /\ ~StrContains(value_stripped, COLON)
    /\ StartsWithKeyword(value_stripped)

\* key_line = indent + key_part + ' ' + value_stripped; ...; i = j + 1
MergeForward(f, j, key_part, value_stripped, indent) ==
    [Recorded(f, Fix(CHECK, "Fixed orphaned value: merged with key", <<value_stripped>>))
        EXCEPT !.fixed_lines = Append(@, indent \o key_part \o <<" ">> \o value_stripped),
               !.i = j + 1]

\* the look ahead from a key with nothing after its colon
LookAhead(f, j, key_part, indent) ==
    IF j < Len(f.lines) /\ IsValueLine(f, j, LStrip(f.lines[j + 1]), indent)
    THEN MergeForward(f, j, key_part, LStrip(f.lines[j + 1]), indent)
    ELSE AppendLine(f)

\* if ':' in stripped and (...): colon_idx = stripped.index(':'); ...
EmptyKeyRule(f, stripped, indent, colon_idx) ==
    IF colon_idx.exc # "" THEN FixerFailed(f, colon_idx.exc)
    ELSE IF AfterColon(stripped, colon_idx.val) = <<>>
         THEN LookAhead(f, SkipEmpty(f.lines, f.i + 1), KeyPart(stripped, colon_idx.val), indent)
         ELSE AppendLine(f)

\* if ':' in stripped and (stripped.rstrip().endswith(':') or ':' in stripped): ...
KeyRule(f, stripped, indent) ==
    IF StrContains(stripped, COLON)
       /\ (EndsWith(RStrip(stripped), COLON) \/ StrContains(stripped, COLON))
    THEN EmptyKeyRule(f, stripped, indent, StrIndex(stripped, COLON))
    ELSE AppendLine(f)

\* prev_line = fixed_lines[-1]; if the previous line is an empty key, merge; else go on
\* to the rule for keys
OrphanRule(f, stripped, indent, prev_line) ==
    IF prev_line.exc # "" THEN FixerFailed(f, prev_line.exc)
    ELSE IF IsEmptyKey(prev_line.val, LStrip(prev_line.val), indent)
         THEN MergeBackward(f, prev_line.val, stripped)
         ELSE KeyRule(f, stripped, indent)

\* the rules after the typos, in the order of the source; a rule that merges ends the
\* iteration (continue)
MergeRules(f, stripped, indent) ==
    IF IsSplitKey(f, stripped) THEN MergeSplitKey(f, stripped, indent)
    ELSE IF IsOrphanedValue(stripped) /\ f.fixed_lines # <<>>
         THEN OrphanRule(f, stripped, indent, PyLast(f.fixed_lines))
         ELSE KeyRule(f, stripped, indent)

\* one iteration of the while loop, from line = lines[i] on
LoopBody(f) ==
    IF StrStrip(f.line) = <<>> THEN AppendLine(f)
    ELSE MergeRules(FixContainerWord(FixImageName(f)), LStrip(f.line), Indent(f.line))

\* lines = content.split('\n'); fixed_lines = []; fixes_applied = []; modified = False; i = 0
Entered(content) ==
    [pc |-> "loop", content |-> content, lines |-> StrSplit(content, NEWLINE), i |-> 0,
     line |-> <<>>, fixed_lines |-> <<>>, fixes_applied |-> <<>>, modified |-> FALSE,
     fixed_content |-> <<>>, exc |-> ""]

\* fixed_content = '\n'.join(fixed_lines); return modified, fixed_content, fixes_applied
Left(f) == [f EXCEPT !.pc = "returned", !.fixed_content = StrJoin(NEWLINE, f.fixed_lines)]

\* the texts the call is applied to: up to MaxLines lines of these
L_restartP == <<"r", "e", "s", "t", "a", "r", "t", "P">>
L_olicy_Always == <<"o", "l", "i", "c", "y", ":", " ", "A", "l", "w", "a", "y", "s">>
L_imagePullPolicy == <<"i", "m", "a", "g", "e", "P", "u", "l", "l", "P", "o", "l", "i", "c", "y", ":">>
L_imagePullPolicy_1 == <<" ", "i", "m", "a", "g", "e", "P", "u", "l", "l", "P", "o", "l", "i", "c", "y", ":">>
L_IfNotPresent_2 == <<" ", " ", "I", "f", "N", "o", "t", "P", "r", "e", "s", "e", "n", "t">>
L_Neverland == <<"N", "e", "v", "e", "r", "l", "a", "n", "d">>
L_a_b == <<"a", ":", " ", "b", ":">>
L_typos == <<"c", "o", "n", "t", "s", " ", "a", "i", "n", "e", "r", " ", "n", "g", "i", "n", " ", "x">>

Lines ==
    {<<>>, L_restartP, L_olicy_Always, S_olicy_colon, L_imagePullPolicy, L_imagePullPolicy_1,
     S_IfNotPresent, L_IfNotPresent_2, L_Neverland, L_a_b, L_typos}

Contents ==
    {StrJoin(NEWLINE, ls) : ls \in UNION {[1..n -> Lines] : n \in 1..MaxLines}}

(***************************************************************************)
(* KubeAegisAgent.fix_manifest_in_place (agent/brain.py).  The file is     *)
(* missing, or holds a text, or holds what yaml.dump wrote for a document. *)
(* yaml.safe_load is modelled on the texts of FileContents: lines without  *)
(* indentation that are blank, a plain word, or 'key:' / 'key: value' with *)
(* a value that YAML reads as a string.                                    *)
(***************************************************************************)
Missing == [t |-> "missing"]
Text(s) == [t |-> "text", s |-> s]
Dumped(d) == [t |-> "yaml", doc |-> d]

\* a line 'key:' or 'key: value': the place of the colon that ends the key
IsEntry(l) == \E c \in 2..Len(l) : l[c] = ":" /\ (c = Len(l) \/ l[c + 1] = " ")
KeyEnd(l) ==
    CHOOSE c \in 2..Len(l) :
        /\ l[c] = ":" /\ (c = Len(l) \/ l[c + 1] = " ")
        /\ \A k \in 2..(c - 1) : ~(l[k] = ":" /\ l[k + 1] = " ")
EntryKey(l) == SubSeq(l, 1, KeyEnd(l) - 1)
ScalarOf(s) == IF s = <<>> THEN PyNone ELSE PyStr(s)
\* a flow mapping '{key: value, key: value}' with values that YAML reads as strings
COMMA == <<",">>
FlowKey(item) == StrSplit(item, COLON)[1]
FlowValue(item) == PyStr(StrStrip(StrSplit(item, COLON)[2]))
RECURSIVE FlowEntries(_)
FlowEntries(items) ==
    IF items = <<>> THEN EmptyMap
    ELSE MapPut(FlowEntries(SubSeq(items, 1, Len(items) - 1)),
                FlowKey(StrStrip(items[Len(items)])), FlowValue(StrStrip(items[Len(items)])))
FlowMapping(s) == TDict(FlowEntries(StrSplit(SubSeq(s, 2, Len(s) - 1), COMMA)))
\* the node a value text gives
NodeOf(s) == IF s # <<>> /\ s[1] = "{" THEN FlowMapping(s) ELSE ScalarOf(s)
EntryValue(l) == NodeOf(StrStrip(SubSeq(l, KeyEnd(l) + 1, Len(l))))

\* the block mapping the entries give; of two entries with one key the later stays
RECURSIVE EntriesOf(_)
EntriesOf(ls) ==
    IF ls = <<>> THEN EmptyMap
    ELSE MapPut(EntriesOf(SubSeq(ls, 1, Len(ls) - 1)),
                EntryKey(ls[Len(ls)]), EntryValue(ls[Len(ls)]))

\* the plain scalar several lines give: a line break folds into a space, the empty
\* lines between two words into as many line breaks
RECURSIVE FoldPlain(_, _)
FoldPlain(ls, gap) ==
    IF ls = <<>> THEN <<>>
    ELSE IF StrStrip(ls[1]) = <<>> THEN FoldPlain(Tail(ls), gap \o NEWLINE)
    ELSE (IF gap = <<>> THEN <<" ">> ELSE gap) \o StrStrip(ls[1]) \o FoldPlain(Tail(ls), <<>>)
PlainScalar(ls) == LStrip(FoldPlain(ls, <<>>))

IsNonBlank(l) == StrStrip(l) # <<>>
\* the document of the lines ls, nb being those of them that are not blank
ParseLines(ls, nb) ==
    IF nb = <<>> THEN Ok(PyNone)
    ELSE IF \A k \in 1..Len(nb) : IsEntry(nb[k]) THEN Ok(TDict(EntriesOf(nb)))
    ELSE IF \A k \in 1..Len(nb) : ~IsEntry(nb[k]) THEN Ok(PyStr(PlainScalar(ls)))
    ELSE Raise("YAMLError")
\* yaml.safe_load(text), before the objects are made: the document, or the error
YamlText(text) ==
    ParseLines(StrSplit(text, NEWLINE), SelectSeq(StrSplit(text, NEWLINE), IsNonBlank))

\* what parsing a text and validating the manifest give: [exc, heap, manifest, valid,
\* errors]; exc is the exception of the parser or of the validator
NotLoaded(h, e) ==
    [exc |-> e, heap |-> h, manifest |-> PyNone, valid |-> FALSE, errors |-> <<>>]
Validation(l, v) ==
    [exc |-> v.exc, heap |-> l.heap, manifest |-> l.val, valid |-> v.valid, errors |-> v.errors]
ValidateLoaded(l) == Validation(l, validate_manifest(l.heap, l.val))
ValidateParsed(h, p) ==
    IF p.exc # "" THEN NotLoaded(h, p.exc) ELSE ValidateLoaded(YamlSafeLoad(h, p.val))
LoadAndValidate(h, text) == ValidateParsed(h, YamlText(text))

\* the dict fix_manifest_in_place returns: status, was_modified, fixes_applied
Result(status, was_modified, fixes_applied) ==
    [status |-> status, was_modified |-> was_modified, fixes_applied |-> fixes_applied]
NoResult == Result("none", FALSE, <<>>)

\* the locals of a call that has not run yet
Started ==
    [pc |-> "step0", raw_content |-> <<>>, manifest |-> PyNone, original_valid |-> FALSE,
     original_errors |-> <<>>, syntax_errors |-> <<>>, all_fixes |-> <<>>,
     was_modified |-> FALSE, fixed_manifest |-> PyNone, is_valid |-> FALSE, errors |-> <<>>,
     pending |-> Missing, result |-> NoResult]

ReturnWith(a, result) == [a EXCEPT !.pc = "returned", !.result = result]
\* except Exception as e: return {"status": "error", ..., "was_modified": False}
ExceptReturn(a) == ReturnWith(a, Result("error", FALSE, <<>>))
\* with open(file_path, "w") as f: ...; return {...}
WriteThenReturn(a, content, result) ==
    [a EXCEPT !.pc = "open", !.pending = content, !.result = result]

\* lines 205-214, r being what load_yaml and validate_manifest gave
AfterLoad(a, r) ==
    IF r.exc # ""
    THEN [a EXCEPT !.pc = "step15", !.original_valid = FALSE, !.syntax_errors = <<r.exc>>,
                   !.original_errors = <<r.exc>>, !.manifest = PyNone]
    ELSE [a EXCEPT !.pc = "step2", !.manifest = r.manifest, !.original_valid = r.valid,
                   !.original_errors = r.errors, !.syntax_errors = <<>>]

\* lines 219-246 with the repaired text written before it is parsed
AfterFixWritten(a, f, r) ==
    IF ~f.modified
    THEN ReturnWith([a EXCEPT !.all_fixes = @ \o f.fixes_applied],
                    Result("error", FALSE, a.all_fixes \o f.fixes_applied))
    ELSE WriteThenReturn([a EXCEPT !.all_fixes = @ \o f.fixes_applied,
                                   !.manifest = r.manifest,
                                   !.raw_content = f.fixed_content],
                         Text(f.fixed_content),
                         Result("fixed", TRUE, a.all_fixes \o f.fixes_applied))

\* lines 219-246, f being the call of fix_yaml_syntax that returned and r what
\* yaml.safe_load and validate_manifest gave for its text
AfterFix(a, f, r) ==
    IF ~f.modified \/ r.exc # ""
    THEN ReturnWith([a EXCEPT !.all_fixes = @ \o f.fixes_applied],
                    Result("error", FALSE, a.all_fixes \o f.fixes_applied))
    ELSE [a EXCEPT !.pc = "step2", !.all_fixes = @ \o f.fixes_applied,
                   !.manifest = r.manifest, !.raw_content = f.fixed_content,
                   !.original_valid = r.valid, !.original_errors = r.errors,
                   !.syntax_errors = <<>>]

\* lines 249-276
AfterValid(a) ==
    IF a.all_fixes # <<>>
    THEN WriteThenReturn(a, Text(a.raw_content), Result("fixed", TRUE, a.all_fixes))
    ELSE ReturnWith(a, Result("already_valid", FALSE, <<>>))

\* lines 279-282, r being what resolve_manifest gave
AfterResolve(a, r) ==
    IF r.exc # "" THEN ExceptReturn(a)
    ELSE [a EXCEPT !.pc = "step4", !.was_modified = r.was_modified,
                   !.fixed_manifest = r.fixed_manifest,
                   !.all_fixes = @ \o r.fixes_applied]

\* line 285, v being what validate_manifest gave
AfterValidate(a, v) ==
    IF v.exc # "" THEN ExceptReturn(a)
    ELSE [a EXCEPT !.pc = "step5", !.is_valid = v.valid, !.errors = v.errors]

\* if was_modified or syntax_errors
OverwriteNeeded(a) == a.was_modified \/ a.syntax_errors # <<>>

\* lines 288-305, dumped being what yaml.dump writes for fixed_manifest
AfterValidated(a, dumped) ==
    IF OverwriteNeeded(a)
    THEN WriteThenReturn(a, dumped, Result("fixed", TRUE, a.all_fixes))
    ELSE ReturnWith(a, Result("no_changes", FALSE, a.all_fixes))

\* the files the call is applied to: no file, or up to MaxLines of these, each a line but
\* for UnsupportedManifest
L_kind_ConfigMap == <<"k", "i", "n", "d", ":", " ", "C", "o", "n", "f", "i", "g", "M", "a", "p">>
L_kind_Pod == <<"k", "i", "n", "d", ":", " ", "P", "o", "d">>
L_metadata == <<"m", "e", "t", "a", "d", "a", "t", "a", ":">>

L_apiVersion_v1 == <<"a", "p", "i", "V", "e", "r", "s", "i", "o", "n", ":", " ", "v", "1">>
L_kind_Banana == <<"k", "i", "n", "d", ":", " ", "B", "a", "n", "a", "n", "a">>
L_metadata_web_prod ==
    <<"m", "e", "t", "a", "d", "a", "t", "a", ":", " ", "{", "n", "a", "m", "e", ":", " ", "w", "e", "b", ",", " ">>
    \o <<"n", "a", "m", "e", "s", "p", "a", "c", "e", ":", " ", "p", "r", "o", "d", "}">>
\* the three lines of a manifest of a kind that is not supported, with nothing to resolve
UnsupportedManifest == StrJoin(NEWLINE, <<L_apiVersion_v1, L_kind_Banana, L_metadata_web_prod>>)

FileLines ==
    {<<>>, L_kind_ConfigMap, L_kind_Pod, L_metadata, L_restartP, L_olicy_Always, S_IfNotPresent,
     UnsupportedManifest}

FileContents ==
    {StrJoin(NEWLINE, ls) : ls \in UNION {[1..n -> FileLines] : n \in 1..MaxLines}}

(***************************************************************************)
(* The state: the heap, the caller's document (doc is what it denoted when *)
(* it was loaded, manifest the value the caller holds), and what each call *)
(* of the workflow returned.                                               *)
(***************************************************************************)
VARIABLES heap, doc, manifest, pc, original, resolution, final, second, fixer,
          agent, disk, disk_at_call

vars == <<heap, doc, manifest, pc, original, resolution, final, second, fixer,
          agent, disk, disk_at_call>>

NotCalled == [exc |-> "not called"]

\* what the caller keeps of a resolve_manifest call
Outcome(r) == [exc |-> r.exc, was_modified |-> r.was_modified,
               fixed_manifest |-> r.fixed_manifest, fixes_applied |-> r.fixes_applied]

\* the caller gets the outcome of the call r, and the heap is as the call left it
Called(r, h, out) == h = r.heap /\ out = Outcome(r)

\* manifest = load_yaml(file_path)
Loaded(d, r) == heap = r.heap /\ doc = d /\ manifest = r.val

Init ==
    /\ \E kind \in KindChoices : \E d \in Documents(kind) : Loaded(d, YamlSafeLoad(<<>>, d))
    /\ pc = "loaded"
    /\ original = NotCalled
    /\ resolution = NotCalled
    /\ final = NotCalled
    /\ second = NotCalled
    /\ fixer = NotCalled
    /\ agent = NotCalled
    /\ disk = Missing
    /\ disk_at_call = Missing

\* validator.validate_manifest(manifest) on the loaded document
ValidateOriginal ==
    /\ pc = "loaded"
    /\ original' = validate_manifest(heap, manifest)
    /\ pc' = "validated"
    /\ UNCHANGED <<heap, doc, manifest, resolution, final, second, fixer, agent, disk, disk_at_call>>

\* ManifestResolver.resolve_manifest(manifest)
Resolve ==
    /\ pc = "validated"
    /\ Called(resolve_manifest(heap, manifest), heap', resolution')
    /\ pc' = "resolved"
    /\ UNCHANGED <<doc, manifest, original, final, second, fixer, agent, disk, disk_at_call>>

\* validator.validate_manifest(fixed_manifest)
ValidateFixed ==
    /\ pc = "resolved"
    /\ resolution.exc = ""
    /\ final' = validate_manifest(heap, resolution.fixed_manifest)
    /\ pc' = "checked"
    /\ UNCHANGED <<heap, doc, manifest, original, resolution, second, fixer, agent, disk, disk_at_call>>

\* ManifestResolver.resolve_manifest applied to its own output
ResolveAgain ==
    /\ pc = "checked"
    /\ Called(resolve_manifest(heap, resolution.fixed_manifest), heap', second')
    /\ pc' = "done"
    /\ UNCHANGED <<doc, manifest, original, resolution, final, fixer, agent, disk, disk_at_call>>

Next == ValidateOriginal \/ Resolve \/ ValidateFixed \/ ResolveAgain

Spec == Init /\ [][Next]_vars

(***************************************************************************)
(* A call of fix_yaml_syntax on a text, one iteration of its loop at a     *)
(* time.                                                                   *)
(***************************************************************************)
SyntaxInit ==
    /\ \E content \in Contents : fixer = [Entered(content) EXCEPT !.pc = "called", !.lines = <<>>]
    /\ heap = <<>>
    /\ doc = PyNone
    /\ manifest = PyNone
    /\ pc = "syntax"
    /\ original = NotCalled
    /\ resolution = NotCalled
    /\ final = NotCalled
    /\ second = NotCalled
    /\ agent = NotCalled
    /\ disk = Missing
    /\ disk_at_call = Missing

\* lines 26-31: the split and the locals
Enter ==
    /\ fixer.pc = "called"
    /\ fixer' = Entered(fixer.content)
    /\ UNCHANGED <<heap, doc, manifest, pc, original, resolution, final, second, agent, disk,
                   disk_at_call>>

\* lines 32-142: one iteration of while i < len(lines)
Iterate ==
    /\ fixer.pc = "loop"
    /\ fixer.i < Len(fixer.lines)
    /\ fixer' = LoopBody([fixer EXCEPT !.line = fixer.lines[fixer.i + 1]])
    /\ UNCHANGED <<heap, doc, manifest, pc, original, resolution, final, second, agent, disk,
                   disk_at_call>>

\* lines 144-145: the join and the return
Leave ==
    /\ fixer.pc = "loop"
    /\ ~(fixer.i < Len(fixer.lines))
    /\ fixer' = Left(fixer)
    /\ UNCHANGED <<heap, doc, manifest, pc, original, resolution, final, second, agent, disk,
                   disk_at_call>>

SyntaxNext == Enter \/ Iterate \/ Leave

SyntaxSpec == SyntaxInit /\ [][SyntaxNext]_vars

(***************************************************************************)
(* A call of fix_manifest_in_place on a file, step by step; the call of    *)
(* fix_yaml_syntax it makes runs one iteration at a time.                  *)
(***************************************************************************)
FileInit ==
    /\ disk \in {Missing} \cup {Text(content) : content \in FileContents}
    /\ disk_at_call = disk
    /\ agent = Started
    /\ fixer = [Entered(<<>>) EXCEPT !.pc = "idle", !.lines = <<>>]
    /\ heap = <<>>
    /\ doc = PyNone
    /\ manifest = PyNone
    /\ pc = "file"
    /\ original = NotCalled
    /\ resolution = NotCalled
    /\ final = NotCalled
    /\ second = NotCalled

\* the call r leaves the heap h and the locals a
Stepped(r, h, a) == h = r.heap /\ a = AfterLoad(agent, r)
Refixed(r, h, a) ==
    /\ h = (IF fixer.modified THEN r.heap ELSE heap)
    /\ a = AfterFix(agent, fixer, r)
Resolved(r, h, a) ==
    /\ h = (IF r.exc = "" THEN r.heap ELSE heap)
    /\ a = AfterResolve(agent, r)

\* Step 0 (lines 201-202): read the file
Step0_Read ==
    /\ agent.pc = "step0"
    /\ agent' = IF disk = Missing THEN ExceptReturn(agent)
                ELSE [agent EXCEPT !.pc = "step1", !.raw_content = disk.s]
    /\ UNCHANGED <<disk, disk_at_call, fixer, heap, doc, manifest, pc, original, resolution,
                   final, second>>

\* Step 1 (lines 205-214): load_yaml(file_path) and validate_manifest
Step1_Load ==
    /\ agent.pc = "step1"
    /\ Stepped(LoadAndValidate(heap, disk.s), heap', agent')
    /\ UNCHANGED <<disk, disk_at_call, fixer, doc, manifest, pc, original, resolution, final,
                   second>>

\* Step 1.5 (line 219): the call of fix_yaml_syntax(raw_content)
Step15_CallFixer ==
    /\ agent.pc = "step15"
    /\ fixer' = [Entered(agent.raw_content) EXCEPT !.pc = "called", !.lines = <<>>]
    /\ agent' = [agent EXCEPT !.pc = "fixing"]
    /\ UNCHANGED <<disk, disk_at_call, heap, doc, manifest, pc, original, resolution, final,
                   second>>

\* Step 1.5 (lines 220-246): parse and validate the text fix_yaml_syntax returned;
\* the file is left as it is
Step15_Reparse ==
    /\ agent.pc = "fixing"
    /\ fixer.pc = "returned"
    /\ Refixed(LoadAndValidate(heap, fixer.fixed_content), heap', agent')
    /\ UNCHANGED <<disk, disk_at_call, fixer, doc, manifest, pc, original, resolution, final,
                   second>>

\* Step 2 (lines 249-276): the manifest is valid
Step2_AlreadyValid ==
    /\ agent.pc = "step2"
    /\ agent.original_valid
    /\ agent' = AfterValid(agent)
    /\ UNCHANGED <<disk, disk_at_call, fixer, heap, doc, manifest, pc, original, resolution,
                   final, second>>

\* Step 3 (lines 279-282): resolve_manifest(manifest)
Step3_Resolve ==
    /\ agent.pc = "step2"
    /\ ~agent.original_valid
    /\ Resolved(resolve_manifest(heap, agent.manifest), heap', agent')
    /\ UNCHANGED <<disk, disk_at_call, fixer, doc, manifest, pc, original, resolution, final,
                   second>>

\* Step 4 (line 285): validate_manifest(fixed_manifest)
Step4_Validate ==
    /\ agent.pc = "step4"
    /\ agent' = AfterValidate(agent, validate_manifest(heap, agent.fixed_manifest))
    /\ UNCHANGED <<disk, disk_at_call, fixer, heap, doc, manifest, pc, original, resolution,
                   final, second>>

\* Step 5 (lines 288-305): overwrite if something was fixed, and return
Step5_Overwrite ==
    /\ agent.pc = "step5"
    /\ agent' = AfterValidated(agent, Dumped(YamlDump(heap, agent.fixed_manifest)))
    /\ UNCHANGED <<disk, disk_at_call, fixer, heap, doc, manifest, pc, original, resolution,
                   final, second>>

\* open(file_path, "w"): the file is emptied
OpenFile ==
    /\ agent.pc = "open"
    /\ disk' = Text(<<>>)
    /\ agent' = [agent EXCEPT !.pc = "write"]
    /\ UNCHANGED <<disk_at_call, fixer, heap, doc, manifest, pc, original, resolution, final,
                   second>>

\* f.write(raw_content), or yaml.dump(fixed_manifest, f), and the return
WriteFile ==
    /\ agent.pc = "write"
    /\ disk' = agent.pending
    /\ agent' = [agent EXCEPT !.pc = "returned"]
    /\ UNCHANGED <<disk_at_call, fixer, heap, doc, manifest, pc, original, resolution, final,
                   second>>

FileNext ==
    \/ Step0_Read \/ Step1_Load \/ Step15_CallFixer \/ Enter \/ Iterate \/ Leave
    \/ Step15_Reparse \/ Step2_AlreadyValid \/ Step3_Resolve \/ Step4_Validate
    \/ Step5_Overwrite \/ OpenFile \/ WriteFile

FileSpec == FileInit /\ [][FileNext]_vars

(***************************************************************************)
(* Properties.                                                             *)
(***************************************************************************)
DocIsMapping == doc.t = "dict"
DocHas(key) == DocIsMapping /\ key \in DOMAIN doc.d
DocKindIn(kinds) == DocHas(K_kind) /\ doc.d[K_kind] \in {PyStr(k) : k \in kinds}
ValidatedOriginal == pc # "loaded"
ResolveCalled == pc \in {"resolved", "checked", "done"}
ResolveReturned == ResolveCalled /\ resolution.exc = ""
\* the document resolve_manifest returned
FixedDocument == YamlDump(heap, resolution.fixed_manifest)
MissingKindFix == Fix(WARNING, "Missing 'kind' field - cannot proceed", <<>>)
S_pod_default == <<"p", "o", "d", "-", "d", "e", "f", "a", "u", "l", "t">>
S_container_0 == <<"c", "o", "n", "t", "a", "i", "n", "e", "r", "-", "0">>
PodOnly == TDict(MkMap(<<<<K_kind, PyStr(S_Pod)>>>>))

\* C1: for a Pod, Deployment or Service document, when resolve_manifest reports
\* was_modified = TRUE, validate_manifest accepts the document it returned.
C1_Convergence ==
    (pc \in {"checked", "done"} /\ DocKindIn({S_Pod, S_Deployment, S_Service})
     /\ resolution.was_modified)
    => (final.exc = "" /\ final.valid)

\* C2: resolve_manifest applied to the document it returned for a mapping reports
\* was_modified = FALSE and no fix.
C2_Idempotent ==
    (pc = "done" /\ DocIsMapping)
    => (second.exc = "" /\ ~second.was_modified /\ second.fixes_applied = <<>>)

\* C3: after every call (validate_manifest, resolve_manifest, and the calls on the
\* returned document) the caller's document denotes what it denoted when loaded.
C3_Purity == YamlDump(heap, manifest) = doc
\* C3's case: a call that changed nested objects of its copy (metadata.name and a
\* container of spec.containers) has returned
C3_Witness ==
    /\ pc = "done"
    /\ resolution.exc = ""
    /\ \E i \in 1..Len(resolution.fixes_applied) :
            resolution.fixes_applied[i].text = "Added default name: "
    /\ \E i \in 1..Len(resolution.fixes_applied) :
            resolution.fixes_applied[i].text = "Added imagePullPolicy to container"

\* C4: for {kind: Pod} the returned document has apiVersion v1, metadata
\* {name: pod-default, namespace: default}, restartPolicy Always and one container
\* {name: container-0, image: nginx:latest, imagePullPolicy: IfNotPresent}.
C4_Expected ==
    TDict(MkMap(<<
        <<K_apiVersion, PyStr(S_v1)>>,
        <<K_kind, PyStr(S_Pod)>>,
        <<K_metadata, TDict(MkMap(<<<<K_name, PyStr(S_pod_default)>>,
                                    <<K_namespace, PyStr(S_default)>>>>))>>,
        <<K_spec, TDict(MkMap(<<
            <<K_containers,
              TList(<<TDict(MkMap(<<<<K_name, PyStr(S_container_0)>>,
                                    <<K_image, PyStr(S_nginx_latest)>>,
                                    <<K_imagePullPolicy, PyStr(S_IfNotPresent)>>>>))>>)>>,
            <<K_restartPolicy, PyStr(S_Always)>>>>))>>>>))
C4_PodScenario ==
    (ResolveReturned /\ doc = PodOnly) => FixedDocument = C4_Expected

\* C5: for {kind: Pod} was_modified is TRUE and the fixes are the seven listed, in
\* this order; in every fix list the common fixes precede the kind-specific ones.
C5_PodFixes ==
    <<Fix(CHECK, "Added default apiVersion (v1)", <<>>),
      Fix(CHECK, "Added metadata section", <<>>),
      Fix(CHECK, "Added default name: ", <<S_pod_default>>),
      Fix(CHECK, "Added default namespace (default)", <<>>),
      Fix(CHECK, "Added spec section", <<>>),
      Fix(CHECK, "Added default container", <<>>),
      Fix(CHECK, "Added default restartPolicy (Always)", <<>>)>>
CommonFixTexts ==
    {"Added default apiVersion (v1)", "Added metadata section", "Added default name: ",
     "Added default namespace (default)"}
CommonFirst(fixes) ==
    \A i, j \in 1..Len(fixes) :
        (i < j /\ fixes[j].text \in CommonFixTexts) => fixes[i].text \in CommonFixTexts
C5_FixCount ==
    ResolveReturned =>
        /\ DocHas(K_kind) => CommonFirst(resolution.fixes_applied)
        /\ doc = PodOnly =>
              (resolution.was_modified /\ resolution.fixes_applied = C5_PodFixes)
C5_Witness == ResolveReturned /\ doc = PodOnly /\ Len(resolution.fixes_applied) = 7

\* C6 as stated: on any input, mapping or not, was_modified is TRUE iff the fix
\* list is non-empty.
C6_Original ==
    ResolveReturned => (resolution.was_modified <=> resolution.fixes_applied # <<>>)
\* C6 amended: on a mapping, was_modified is TRUE iff the fix list is non-empty; on
\* any other input was_modified is FALSE and the fix list is the one diagnostic.
C6_ModifiedIffFixes ==
    /\ ResolveReturned =>
          IF DocIsMapping
          THEN resolution.was_modified <=> resolution.fixes_applied # <<>>
          ELSE /\ ~resolution.was_modified
               /\ resolution.fixes_applied = <<Fix("", "Invalid manifest format", <<>>)>>
    /\ (pc = "done" /\ second.exc = "" /\ DocIsMapping) =>
          (second.was_modified <=> second.fixes_applied # <<>>)
C6_Witness ==
    ResolveReturned /\ DocIsMapping /\ ~resolution.was_modified
    /\ resolution.fixes_applied = <<>>

\* C7: for a mapping without kind, resolve_manifest returns was_modified = TRUE, its
\* last fix is the warning-marked missing-kind diagnostic, and the returned document
\* is the input, except that apiVersion may have been set to v1.
C7_MissingKindTerminal ==
    (ResolveCalled /\ DocIsMapping /\ ~DocHas(K_kind)) =>
        /\ resolution.exc = ""
        /\ resolution.was_modified
        /\ resolution.fixes_applied[Len(resolution.fixes_applied)] = MissingKindFix
        /\ \/ FixedDocument = doc
           \/ FixedDocument = TDict(MapPut(doc.d, K_apiVersion, PyStr(S_v1)))
C7_Witness ==
    /\ ResolveReturned /\ DocIsMapping /\ ~DocHas(K_kind)
    /\ ~DocHas(K_metadata) /\ ~DocHas(K_apiVersion)
    /\ Len(resolution.fixes_applied) = 2

\* C8: on a mapping, whatever the types of its values, resolve_manifest returns and
\* does not raise.
C8_ResolverNeverRaises == (ResolveCalled /\ DocIsMapping) => resolution.exc = ""

\* C9: on a mapping, whatever the types of its values, validate_manifest returns
\* and does not raise.
C9_ValidatorNeverRaises == (ValidatedOriginal /\ DocIsMapping) => original.exc = ""

\* C10: for a mapping without kind, validate_manifest returns valid = FALSE with the
\* missing-kind error as its only error.
C10_MissingKindShortCircuit ==
    (ValidatedOriginal /\ DocIsMapping /\ ~DocHas(K_kind)) =>
        /\ original.exc = ""
        /\ ~original.valid
        /\ original.errors = <<[text |-> "Missing required field: 'kind'", args |-> <<>>]>>
C10_Witness ==
    /\ ValidatedOriginal /\ DocIsMapping /\ ~DocHas(K_kind)
    /\ DocHas(K_apiVersion) /\ doc.d[K_apiVersion] = PyStr(<<>>)
    /\ DocHas(K_metadata) /\ doc.d[K_metadata] = PyNone
    /\ Len(original.errors) = 1
\* the errors the rules of validate_manifest give for the document t, rule by rule
UnsupportedRule(t) ==
    IF t.d[K_kind] \in {PyStr(S_Pod), PyStr(S_Deployment), PyStr(S_Service),
                        PyStr(S_ConfigMap), PyStr(S_Secret)}
    THEN <<>>
    ELSE <<[text |-> "Unsupported Kubernetes kind", args |-> <<t.d[K_kind]>>]>>
MissingRule(t, field) ==
    IF t.d[K_kind] \in {PyStr(S_Pod), PyStr(S_Deployment), PyStr(S_Service)}
       /\ field \notin DOMAIN t.d
    THEN <<[text |-> "Missing required field for kind", args |-> <<t.d[K_kind].s, field>>]>>
    ELSE <<>>
ApiVersionRule(t) ==
    IF K_apiVersion \in DOMAIN t.d
       /\ (t.d[K_apiVersion].t # "str"
           \/ \A i \in 1..Len(t.d[K_apiVersion].s) : t.d[K_apiVersion].s[i] \in WhiteSpace)
    THEN <<[text |-> "Invalid apiVersion: must be a non-empty string", args |-> <<>>]>>
    ELSE <<>>
MetadataRule(t) ==
    IF K_metadata \notin DOMAIN t.d THEN <<>>
    ELSE IF t.d[K_metadata].t # "dict"
         THEN <<[text |-> "Invalid metadata: must be a dictionary", args |-> <<>>]>>
         ELSE IF K_name \notin DOMAIN t.d[K_metadata].d
              THEN <<[text |-> "Missing required field in metadata: 'name'", args |-> <<>>]>>
              ELSE <<>>
AllRules(t) ==
    UnsupportedRule(t) \o MissingRule(t, K_apiVersion) \o MissingRule(t, K_kind)
    \o MissingRule(t, K_metadata) \o MissingRule(t, K_spec)
    \o ApiVersionRule(t) \o MetadataRule(t)

\* C11: when kind is present and validate_manifest returns, its errors are one entry
\* for every violated rule, in rule order (unsupported kind, the missing fields of a
\* Pod, Deployment or Service, invalid apiVersion, invalid metadata), and valid is
\* TRUE iff there is none; this holds for the loaded document and for the document
\* resolve_manifest returned.
C11_Completeness ==
    /\ (ValidatedOriginal /\ DocHas(K_kind) /\ original.exc = "") =>
          /\ original.errors = AllRules(doc)
          /\ original.valid <=> original.errors = <<>>
    /\ (pc \in {"checked", "done"} /\ DocHas(K_kind) /\ final.exc = "") =>
          /\ final.errors = AllRules(FixedDocument)
          /\ final.valid <=> final.errors = <<>>
\* C11's case: a Pod without metadata and spec and with a blank apiVersion gets the
\* two missing-field errors and the apiVersion error
C11_Witness ==
    /\ ValidatedOriginal /\ DocKindIn({S_Pod})
    /\ ~DocHas(K_metadata) /\ ~DocHas(K_spec)
    /\ DocHas(K_apiVersion) /\ doc.d[K_apiVersion] = PyStr(<<" ">>)
    /\ Len(original.errors) = 3
    /\ original.errors[1].args[2] # original.errors[2].args[2]

\* the mapping u is the mapping t with, at most, values added or changed under keys
SameExcept(t, u, keys) ==
    /\ DOMAIN t.d \subseteq DOMAIN u.d
    /\ DOMAIN u.d \subseteq DOMAIN t.d \cup keys
    /\ \A k \in DOMAIN t.d \ keys : u.d[k] = t.d[k]
DocKindWithoutRules ==
    DocHas(K_kind)
    /\ doc.d[K_kind] \notin {PyStr(S_Pod), PyStr(S_Deployment), PyStr(S_Service)}

\* C19: for a mapping whose kind is present and is not Pod, Deployment or Service,
\* the document resolve_manifest returns is the input except, at most, for
\* apiVersion (set to v1), a metadata mapping that was absent, metadata.name and
\* metadata.namespace; spec and every other key are as in the input, and at most
\* four fixes are recorded.
C19_CommonFixesOnly ==
    (ResolveReturned /\ DocKindWithoutRules) =>
        /\ SameExcept(doc, FixedDocument, {K_apiVersion, K_metadata})
        /\ FixedDocument.d[K_apiVersion] \in
              {PyStr(S_v1)} \cup {doc.d[k] : k \in DOMAIN doc.d \cap {K_apiVersion}}
        /\ IF DocHas(K_metadata) /\ doc.d[K_metadata].t = "dict"
           THEN SameExcept(doc.d[K_metadata], FixedDocument.d[K_metadata],
                           {K_name, K_namespace})
           ELSE IF DocHas(K_metadata)
                THEN FixedDocument.d[K_metadata] = doc.d[K_metadata]
                ELSE DOMAIN FixedDocument.d[K_metadata].d = {K_name, K_namespace}
        /\ Len(resolution.fixes_applied) <= 4
\* C19's case: a ConfigMap that needs the four common fixes and holds a spec
C19_Witness ==
    /\ ResolveReturned /\ DocKindIn({S_ConfigMap})
    /\ DocHas(K_spec) /\ doc.d[K_spec] = TDict(EmptyMap)
    /\ Len(resolution.fixes_applied) = 4
    /\ FixedDocument.d[K_spec] = TDict(EmptyMap)

(***************************************************************************)
(* Properties of fix_yaml_syntax.  The scan is at a line when the loop is  *)
(* about to run an iteration on it; what the iteration emits and records   *)
(* is read from the locals before and after the step.                      *)
(***************************************************************************)
SyntaxReturned == fixer.pc = "returned"
Scanning == fixer.pc = "loop" /\ fixer.i < Len(fixer.lines)
ScanLine == fixer.lines[fixer.i + 1]
\* the fixes the step records
NewFixes ==
    SubSeq(fixer'.fixes_applied, Len(fixer.fixes_applied) + 1, Len(fixer'.fixes_applied))
\* the step emits one more line, text, and goes on n lines further
Emits(text, n) ==
    /\ fixer'.pc = "loop"
    /\ fixer'.fixed_lines = Append(fixer.fixed_lines, text)
    /\ fixer'.i = fixer.i + n

IsBlank(l) == \A k \in 1..Len(l) : l[k] \in WhiteSpace
HasColon(l) == \E k \in 1..Len(l) : l[k] = ":"
\* the number of characters of indentation of a line, and the line without them
IndentOf(l) ==
    CHOOSE n \in 0..Len(l) :
        /\ \A k \in 1..n : l[k] \in WhiteSpace
        /\ n = Len(l) \/ l[n + 1] \notin WhiteSpace
TextOf(l) == SubSeq(l, IndentOf(l) + 1, Len(l))
\* a key with an empty value: nothing but white space follows the colon of the key
IsKeyWithoutValue(l) ==
    \E c \in 1..Len(l) :
        /\ l[c] = ":"
        /\ \A k \in 1..Len(l) : k # c => IF k < c THEN l[k] # ":" ELSE l[k] \in WhiteSpace
\* the line up to the colon of its key, indentation included
KeyOf(l) == SubSeq(l, 1, CHOOSE c \in 1..Len(l) : l[c] = ":" /\ \A k \in 1..(c - 1) : l[k] # ":")
EnumValues == {S_True, S_False, S_Always, S_IfNotPresent, S_Never}
IsEnumValue(l) == TextOf(l) \in EnumValues
\* j is the nearest non-blank line after the line the scan is at (lines count from 1)
NearestAfterScan(j) ==
    /\ j \in (fixer.i + 2)..Len(fixer.lines)
    /\ ~IsBlank(fixer.lines[j])
    /\ \A k \in (fixer.i + 2)..(j - 1) : IsBlank(fixer.lines[k])
IndentsApart(l1, l2) ==
    IF IndentOf(l1) < IndentOf(l2) THEN IndentOf(l2) - IndentOf(l1)
    ELSE IndentOf(l1) - IndentOf(l2)
SplitKeyFix(text) == Fix(CHECK, "Fixed split key: merged with next line", <<text>>)
ImageNameFix == Fix(CHECK, "Fixed image name: 'ngin x' -> 'nginx'", <<>>)
ContainerWordFix == Fix(CHECK, "Fixed container name: 'conts ainer' -> 'container'", <<>>)
OrphanFixTexts ==
    {"Fixed orphaned value: merged with previous key", "Fixed orphaned value: merged with key"}

\* C12: when fix_yaml_syntax returns, no line of the repaired text holds 'ngin x' or
\* 'conts ainer': every occurrence in a scanned line was replaced in what was emitted
\* for it, also when the line went into a merge.
C12_TyposRepaired ==
    SyntaxReturned =>
        /\ ~StrContains(fixer.fixed_content, S_ngin_x)
        /\ ~StrContains(fixer.fixed_content, S_conts_ainer)

\* C13: when the scan is at a key without a value and the nearest non-blank line
\* after it is an enum value, then, the indentations being at most one character
\* apart, the step emits the one line '<key indent><key>: <value>', goes on past the
\* blank lines and the value line, records one fix for the merge and sets modified;
\* the indentations being two or more apart, one line is emitted for the key alone
\* and no merge is recorded.  A text of just such a key and value, two or more apart,
\* is returned as it was.
C13_KeyStep ==
    \A j \in 1..Len(fixer.lines) :
        (Scanning /\ IsKeyWithoutValue(ScanLine) /\ NearestAfterScan(j)
         /\ IsEnumValue(fixer.lines[j])) =>
            IF IndentsApart(ScanLine, fixer.lines[j]) <= 1
            THEN /\ Emits(KeyOf(ScanLine) \o <<" ">> \o TextOf(fixer.lines[j]), j - fixer.i)
                 /\ NewFixes # <<>>
                 /\ NewFixes[Len(NewFixes)].text \in OrphanFixTexts
                 /\ \A k \in 1..(Len(NewFixes) - 1) :
                        NewFixes[k] \in {ImageNameFix, ContainerWordFix}
                 /\ fixer'.modified
            ELSE /\ fixer'.pc = "loop"
                 /\ Len(fixer'.fixed_lines) = Len(fixer.fixed_lines) + 1
                 /\ fixer'.i = fixer.i + 1
                 /\ \A k \in 1..Len(NewFixes) : NewFixes[k] \in {ImageNameFix, ContainerWordFix}
C13_NoMergeApart ==
    (SyntaxReturned /\ Len(fixer.lines) = 2
     /\ IsKeyWithoutValue(fixer.lines[1]) /\ IsEnumValue(fixer.lines[2])
     /\ IndentsApart(fixer.lines[1], fixer.lines[2]) >= 2) =>
        (fixer.fixed_content = fixer.content /\ ~fixer.modified /\ fixer.fixes_applied = <<>>)
C13_ForwardMerge == [][C13_KeyStep]_vars /\ []C13_NoMergeApart
\* C13's case: 'imagePullPolicy:', an empty line, 'IfNotPresent' has become
\* 'imagePullPolicy: IfNotPresent'
C13_Witness ==
    /\ SyntaxReturned
    /\ fixer.lines = <<L_imagePullPolicy, <<>>, S_IfNotPresent>>
    /\ fixer.fixed_content = L_imagePullPolicy \o <<" ">> \o S_IfNotPresent
    /\ fixer.modified
    /\ Len(fixer.fixes_applied) = 1

\* the step that merges a split key: the line the scan is at and the line after it
\* give one line, the first line followed by the second without its indentation,
\* and one split-key fix is recorded, after the typo fixes of the line
SplitKeyMerged ==
    /\ Emits(ScanLine \o TextOf(fixer.lines[fixer.i + 2]), 2)
    /\ NewFixes # <<>>
    /\ NewFixes[Len(NewFixes)] = SplitKeyFix(TextOf(ScanLine))
    /\ \A k \in 1..(Len(NewFixes) - 1) : NewFixes[k] \in {ImageNameFix, ContainerWordFix}
ContinuedByNext ==
    /\ Scanning
    /\ ~HasColon(ScanLine)
    /\ fixer.i + 2 <= Len(fixer.lines)
    /\ StartsWith(TextOf(fixer.lines[fixer.i + 2]), S_olicy_colon)
\* C14 as stated: every line without a colon that the scan is at and that is followed
\* by a line starting with 'olicy:' is merged with it.
C14_Original == [][ContinuedByNext => SplitKeyMerged]_vars
\* C14 amended: every non-blank line without a colon that the scan is at and that is
\* followed by a line starting with 'olicy:' is merged with it: the step emits the one
\* line made of the first line and the second line without its indentation, consumes
\* both lines and records one split-key fix.
C14_SplitKeyMerge == [][(ContinuedByNext /\ ~IsBlank(ScanLine)) => SplitKeyMerged]_vars
\* C14's case: 'restartP', 'olicy: Always' has become 'restartPolicy: Always'
C14_Witness ==
    /\ SyntaxReturned
    /\ fixer.lines = <<L_restartP, L_olicy_Always>>
    /\ fixer.fixed_lines = <<L_restartP \o L_olicy_Always>>
    /\ fixer.fixes_applied = <<SplitKeyFix(L_restartP)>>

\* C15: no step of the call raises; a step that records no fix emits the line the
\* scan is at, character for character, and goes on to the next line; every step
\* leaves the lines emitted before as they are, but for the last one, which only a
\* step that records a fix replaces; and the text returned is these lines, in order.
C15_Step ==
    /\ Scanning =>
          /\ fixer'.pc = "loop"
          /\ NewFixes = <<>> => Emits(ScanLine, 1)
          /\ \A k \in 1..Len(fixer.fixed_lines) :
                (k < Len(fixer.fixed_lines) \/ NewFixes = <<>>) =>
                    (k <= Len(fixer'.fixed_lines) /\ fixer'.fixed_lines[k] = fixer.fixed_lines[k])
    /\ (fixer.pc = "loop" /\ ~Scanning) =>
          /\ fixer'.pc = "returned"
          /\ StrSplit(fixer'.fixed_content, NEWLINE) = fixer.fixed_lines
C15_PassThrough == [][C15_Step]_vars
\* C15's case: a text with a merged split key after a line that no rule touches
C15_Witness ==
    /\ SyntaxReturned
    /\ fixer.lines = <<L_imagePullPolicy_1, L_restartP, L_olicy_Always>>
    /\ fixer.fixed_lines = <<L_imagePullPolicy_1, L_restartP \o L_olicy_Always>>

\* C17: a step that merges an orphaned value backward (it replaces the last emitted
\* line) finds there a key without a value and emits that line, trailing white space
\* aside, followed by a space and the value.
C17_Step ==
    (Scanning /\ fixer'.pc = "loop" /\ Len(fixer'.fixed_lines) = Len(fixer.fixed_lines)) =>
        /\ IsKeyWithoutValue(fixer.fixed_lines[Len(fixer.fixed_lines)])
        /\ fixer'.fixed_lines[Len(fixer.fixed_lines)] =
              RStrip(fixer.fixed_lines[Len(fixer.fixed_lines)]) \o <<" ">> \o TextOf(ScanLine)
C17_BackwardKeepsKey == [][C17_Step]_vars

\* C18: every orphaned-value fix that is recorded, backward or forward, is for a value
\* line that is exactly True, False, Always, IfNotPresent or Never.
C18_ExactVocabulary ==
    \A k \in 1..Len(fixer.fixes_applied) :
        fixer.fixes_applied[k].text \in OrphanFixTexts =>
            RStrip(fixer.fixes_applied[k].args[1]) \in EnumValues

\* C20: when fix_yaml_syntax returns, modified is TRUE iff the fix list is non-empty
\* iff the text returned differs from the text given; and every iteration records one
\* fix for each typo the line holds and one for the merge it makes, if any (a merge
\* consumes a further line or replaces the last emitted line).
TypoRules(l) ==
    IF IsBlank(l) THEN 0
    ELSE (IF StrContains(l, S_ngin_x) THEN 1 ELSE 0)
         + (IF StrContains(l, S_conts_ainer) THEN 1 ELSE 0)
MergeCount ==
    IF fixer'.i # fixer.i + 1 \/ Len(fixer'.fixed_lines) = Len(fixer.fixed_lines) THEN 1 ELSE 0
C20_Step ==
    Scanning => Len(NewFixes) = TypoRules(ScanLine) + MergeCount
C20_Agree ==
    /\ fixer.pc \in {"loop", "returned"} => (fixer.modified <=> fixer.fixes_applied # <<>>)
    /\ SyntaxReturned => (fixer.modified <=> fixer.fixed_content # fixer.content)
C20_FlagFixesText == [][C20_Step]_vars /\ []C20_Agree
\* C20's case: a text of three lines that no rule applies to is returned as it was
C20_Witness ==
    /\ SyntaxReturned
    /\ Len(fixer.lines) = 3
    /\ fixer.lines[2] = <<>>
    /\ ~fixer.modified
    /\ fixer.fixes_applied = <<>>
    /\ fixer.fixed_content = fixer.content

\* the file has been opened for writing by the call
FileWritten ==
    agent.pc = "write" \/ (agent.pc = "returned" /\ agent.result.status = "fixed")
\* raw_content is a text the parser accepted, and manifest is what it gave
ContentParsed ==
    /\ YamlText(agent.raw_content).exc = ""
    /\ YamlDump(heap, agent.manifest) = YamlText(agent.raw_content).val
\* what the call writes: the (repaired) text, or the dump of the resolved manifest
WholeContents ==
    {Text(agent.raw_content), Dumped(YamlDump(heap, agent.fixed_manifest))}

\* C16: fix_manifest_in_place touches the file only after the content it goes on with
\* (the original text or the repaired one) was parsed without an error; when it returns
\* status "error" the file is as it was at the call; and when it returns the file is as
\* it was or holds the whole of what was to be written, never a part of it.
C16_OverwriteAfterParse ==
    /\ disk # disk_at_call => FileWritten
    /\ FileWritten => ContentParsed
    /\ (agent.pc = "returned" /\ agent.result.status = "error") => disk = disk_at_call
    /\ agent.pc = "returned" => (disk = disk_at_call \/ disk \in WholeContents)

\* a file that did not parse is overwritten with its repaired text
C16_Witness ==
    /\ agent.pc = "returned"
    /\ agent.result.status = "fixed"
    /\ YamlText(disk_at_call.s).exc # ""
    /\ disk = Text(agent.raw_content)
    /\ disk # disk_at_call

\* the call returned a result that is no error and reports fixes
ReportsFixes ==
    /\ agent.pc = "returned"
    /\ agent.result.status # "error"
    /\ agent.result.fixes_applied # <<>>
\* the file holds what the call wrote: the repaired text or the dump of fixed_manifest
Overwritten == agent.pending # Missing /\ disk = agent.pending /\ disk \in WholeContents

\* C21: whenever fix_manifest_in_place returns a result that is no error and whose
\* fixes_applied is not empty, the file has been overwritten with the content that has
\* the fixes, and the result has status "fixed" and was_modified true.
C21_ReportedFixesPersisted ==
    ReportsFixes =>
        /\ agent.result.status = "fixed"
        /\ agent.result.was_modified
        /\ Overwritten

\* C21, the case it names: when fix_yaml_syntax made the text parseable and the call
\* returns a result that is no error, the repaired content is in the file, also when
\* resolve_manifest changed nothing.
C21_SyntaxFixesPersisted ==
    (ReportsFixes /\ fixer.pc = "returned" /\ fixer.modified) =>
        /\ agent.result.status = "fixed"
        /\ Overwritten

====
